---------------------------- MODULE Spec2Model ----------------------------
(***************************************************************************)
(* Model of the acquisition control script na22ADQ.py: one controller      *)
(* process driving one instrument session (dpo) for one run.               *)
(*                                                                         *)
(* The script is straight-line code with one loop (the polling loop).      *)
(* pc is the position of the script; every instrument write or query,      *)
(* every status-file write and every deadline check is one step.           *)
(* Time is counted in ticks of 50 ms, measured from the `start` stamp      *)
(* taken right after the arm command.                                      *)
(***************************************************************************)
EXTENDS Integers, Sequences, FiniteSets, TLC

(* ------------------------------ bounds --------------------------------- *)

\* largest positive --timeout explored, in ticks
MaxTimeout == 3
\* largest time one :ADER? query takes to return, in ticks
MaxQueryLatency == 1
\* largest time time.sleep(0.1) oversleeps, in ticks
MaxOversleep == 1
\* polls recorded individually in the bus logs; later polls are not logged
MaxPolls == 2

(* ------------------------- program constants --------------------------- *)

\* time.sleep(0.1): two ticks of 50 ms
SleepTicks == 2
\* the "no override" sentinel of --runNumber
NoOverride == -1

\* The clock saturates here.  A run with a positive timeout leaves the loop
\* before the clock can pass MaxTimeout by more than one iteration, so the
\* saturation is only ever met by the unbounded runs (timeout <= 0).
ClockCap == MaxTimeout + MaxQueryLatency + SleepTicks + MaxOversleep

Sat(t) == IF t > ClockCap THEN ClockCap ELSE t

(* ----------------------------- inputs ---------------------------------- *)

\* --timeout in ticks; the default is -1, non-positive means unbounded
Timeouts == (-1) .. MaxTimeout
\* --save
SaveFlags == {0, 1}
\* --runNumber after int()
RunNumberParams == {-2, NoOverride, 7}
\* content of the run counter file; "missing" stands for an absent file
CounterFiles == {"missing", "garbled", "-3", "42"}
\* texts the instrument may answer to :ADER?
AderResponses == {"0", "1", "+1", "garbled"}

(* ------------------------- int() of a text ----------------------------- *)

\* the texts Python's int() accepts, among the texts of this model
IsIntText(s) == s \in {"0", "1", "+1", "-3", "42"}

\* int(s) for those texts
IntOf(s) ==
  CASE s = "0" -> 0
    [] s = "1" -> 1
    [] s = "+1" -> 1
    [] s = "-3" -> -3
    [] s = "42" -> 42

(* --------------------------- the script -------------------------------- *)

\* ConfigScript with the bandwidth and the vertical scale exchanged
ConfigScript_swapped ==
  << [op |-> "write", cmd |-> ":STOP;*OPC?",                  line |-> 148],
     [op |-> "write", cmd |-> ":TIMebase:RANGe",              line |-> 150],
     [op |-> "write", cmd |-> ":TIMebase:REFerence:PERCent",  line |-> 151],
     [op |-> "write", cmd |-> ":ACQuire:SRATe:ANALog:AUTO",   line |-> 153],
     [op |-> "query", cmd |-> ":ACQuire:SRATe:ANALog?",       line |-> 155],
     [op |-> "write", cmd |-> ":TIMebase:POSition",           line |-> 158],
     [op |-> "write", cmd |-> ":ACQuire:MODE SEGMented",      line |-> 159],
     [op |-> "write", cmd |-> ":ACQuire:SEGMented:COUNt",     line |-> 160],
     [op |-> "write", cmd |-> ":ACQuire:POINts:ANALog AUTO",  line |-> 162],
     [op |-> "write", cmd |-> ":ACQuire:INTerpolate 0",       line |-> 163],
     [op |-> "write", cmd |-> "CHANnel1:SCALe",               line |-> 190],
     [op |-> "write", cmd |-> ":ACQuire:BANDwidth",           line |-> 185],
     [op |-> "write", cmd |-> "CHANnel1:OFFSet",              line |-> 194],
     [op |-> "write", cmd |-> "TRIGger:MODE;SOURce;LEVel",    line |-> 227],
     [op |-> "write", cmd |-> ":TRIGger:EDGE:SLOPe",          line |-> 228] >>

\* The instrument configuration writes and the one query among them, in
\* source order.  line is the source line of the statement.
ConfigScript ==
  << [op |-> "write", cmd |-> ":STOP;*OPC?",                  line |-> 148],
     [op |-> "write", cmd |-> ":TIMebase:RANGe",              line |-> 150],
     [op |-> "write", cmd |-> ":TIMebase:REFerence:PERCent",  line |-> 151],
     [op |-> "write", cmd |-> ":ACQuire:SRATe:ANALog:AUTO",   line |-> 153],
     [op |-> "query", cmd |-> ":ACQuire:SRATe:ANALog?",       line |-> 155],
     [op |-> "write", cmd |-> ":TIMebase:POSition",           line |-> 158],
     [op |-> "write", cmd |-> ":ACQuire:MODE SEGMented",      line |-> 159],
     [op |-> "write", cmd |-> ":ACQuire:SEGMented:COUNt",     line |-> 160],
     [op |-> "write", cmd |-> ":ACQuire:POINts:ANALog AUTO",  line |-> 162],
     [op |-> "write", cmd |-> ":ACQuire:INTerpolate 0",       line |-> 163],
     [op |-> "write", cmd |-> ":ACQuire:BANDwidth",           line |-> 185],
     [op |-> "write", cmd |-> "CHANnel1:SCALe",               line |-> 190],
     [op |-> "write", cmd |-> "CHANnel1:OFFSet",              line |-> 194],
     [op |-> "write", cmd |-> "TRIGger:MODE;SOURce;LEVel",    line |-> 227],
     [op |-> "write", cmd |-> ":TRIGger:EDGE:SLOPe",          line |-> 228] >>

\* The text the instrument answers to a message, "" when the message holds
\* no query.  The answer to :ADER? is chosen by the instrument (see Poll).
AnswerTo(cmd) ==
  CASE cmd = "*idn?" -> "KEYSIGHT"
    [] cmd = ":STOP;*OPC?" -> "1"
    [] cmd = "*OPC?" -> "1"
    [] cmd = ":ACQuire:SRATe:ANALog?" -> "4.0E+9"
    [] OTHER -> ""

(* ------------------------------ state ---------------------------------- *)

VARIABLES
  pc,             \* position of the script
  cfgIdx,         \* next entry of ConfigScript
  timeout,        \* --timeout, ticks
  savewaves,      \* --save
  runNumberParam, \* --runNumber
  counterFile,    \* content of the run counter file
  flushes,        \* the instrument drops unread answers when a new message arrives
  resolved,       \* runNumber has been assigned
  runNumber,      \* the run number
  sent,           \* messages sent on the session, in order
  outq,           \* the instrument's output queue: answers not read yet
  reads,          \* answers read by the controller, in order
  statusFile,     \* content of the status file
  statusLog,      \* every value written to the status file, in order
  now,            \* clock, ticks since `start`
  lastQuery,      \* time the last :ADER? query took
  lastSleep,      \* time the last sleep took
  overslept,      \* some sleep took longer than SleepTicks
  lastAder,       \* text the last :ADER? query returned
  polls,          \* :ADER? queries issued, saturating at MaxPolls
  end_early,      \* the script's end_early
  finish,         \* the script's `end` stamp
  reported,       \* what line 294/295 printed: "", "rate" or "unknown"
  err,            \* the exception that ended the run, "" when none
  failedAt,       \* pc at which it was raised
  peer            \* position of a second controller instance running the same
                  \* script on the same status file; "absent" when there is none

vars == << pc, cfgIdx, timeout, savewaves, runNumberParam, counterFile, flushes,
           resolved, runNumber, sent, outq, reads, statusFile, statusLog,
           now, lastQuery, lastSleep, overslept, lastAder, polls, end_early,
           finish, reported, err, failedAt, peer >>

config == << timeout, savewaves, runNumberParam, counterFile, flushes >>
clockv == << now, lastQuery, lastSleep, overslept, lastAder, polls, end_early,
            finish >>
files  == << statusFile, statusLog >>
bus    == << sent, outq, reads >>
runid  == << resolved, runNumber >>
fault  == << err, failedAt >>
\* everything of this instance but the status file
own    == << pc, cfgIdx, config, runid, bus, clockv, reported, fault >>

\* the script before its first modelled statement
InitState ==
  /\ pc = "connect"
  /\ cfgIdx = 1
  /\ resolved = FALSE
  /\ runNumber = 0
  /\ sent = << >>
  /\ outq = << >>
  /\ reads = << >>
  /\ statusFile = ""
  /\ statusLog = << >>
  /\ now = 0
  /\ lastQuery = 0
  /\ lastSleep = 0
  /\ overslept = FALSE
  /\ lastAder = ""
  /\ polls = 0
  /\ end_early = FALSE
  /\ finish = 0
  /\ reported = ""
  /\ err = ""
  /\ failedAt = ""

\* one controller instance, every input
Init ==
  /\ InitState
  /\ timeout \in Timeouts
  /\ savewaves \in SaveFlags
  /\ runNumberParam \in RunNumberParams
  /\ counterFile \in CounterFiles
  /\ flushes \in BOOLEAN
  /\ peer = "absent"

\* two controller instances started on the same status file.  The run number
\* and the instrument's handling of unread answers play no part in the status
\* file: they are fixed; the timeout is the default or the shortest one.
InitDuo ==
  /\ InitState
  /\ timeout \in {-1, 1}
  /\ savewaves \in SaveFlags
  /\ runNumberParam = 7
  /\ counterFile = "42"
  /\ flushes = TRUE
  /\ peer = "start"

(* -------------------------- the session -------------------------------- *)

Msg(cmd, line, arg) == [cmd |-> cmd, line |-> line, arg |-> arg]

\* The instrument's output queue after it received a message from source
\* line `line` whose answer is `ans` ("" for none).  An instrument that
\* follows IEEE 488.2 drops answers left unread when a new message arrives;
\* one that does not keeps them queued in front of the new answer.
Receive(q, line, ans) ==
  LET kept == IF flushes THEN << >> ELSE q
  IN  IF ans = "" THEN kept ELSE Append(kept, [from |-> line, val |-> ans])

\* dpo.write(cmd): the message goes out, nothing is read
Write(cmd, line, arg) ==
  /\ sent' = Append(sent, Msg(cmd, line, arg))
  /\ outq' = Receive(outq, line, AnswerTo(cmd))
  /\ reads' = reads

\* dpo.query(cmd): the message goes out and the first queued answer is read
Query(cmd, line, ans) ==
  LET q == Receive(outq, line, ans)
  IN  /\ sent' = Append(sent, Msg(cmd, line, 0))
      /\ outq' = Tail(q)
      /\ reads' = Append(reads, [line |-> line, from |-> Head(q).from,
                                  val |-> Head(q).val])

\* The script has no try/except: an exception ends the run where it is raised
Raise(kind) ==
  /\ pc' = "aborted"
  /\ err' = kind
  /\ failedAt' = pc

(* --------------------- connect, run number, log ------------------------ *)

\* line 34: print(dpo.query('*idn?'))
Connect ==
  /\ pc = "connect"
  /\ Query("*idn?", 34, AnswerTo("*idn?"))
  /\ pc' = "resolve"
  /\ UNCHANGED << peer, cfgIdx, config, runid, files, clockv, reported, fault >>

\* lines 108-114
ResolveRunNumber ==
  /\ pc = "resolve"
  /\ IF runNumberParam = NoOverride
       THEN IF counterFile # "missing" /\ IsIntText(counterFile)
              THEN /\ runNumber' = IntOf(counterFile)
                   /\ resolved' = TRUE
                   /\ pc' = "openlog"
                   /\ UNCHANGED fault
              ELSE /\ Raise(IF counterFile = "missing" THEN "FileNotFoundError"
                                                       ELSE "ValueError")
                   /\ UNCHANGED runid
       ELSE /\ runNumber' = runNumberParam
            /\ resolved' = TRUE
            /\ pc' = "openlog"
            /\ UNCHANGED fault
  /\ UNCHANGED << peer, cfgIdx, config, bus, files, clockv, reported >>

\* the disabled increment of lines 121-122 enabled: str(runNumber + 1) is written
CounterFileAfterRun_incremented(content) ==
  CASE content = "42" -> "43"
    [] content = "-3" -> "-2"
    [] OTHER -> "8"

\* lines 110-122: the counter file is opened for reading only, and the write
\* of runNumber + 1 is commented out: the run leaves the content as it is
CounterFileAfterRun(content) == content

\* lines 116-142: the run is announced, the logbook opened and its header
\* written
OpenLog ==
  /\ pc = "openlog"
  /\ pc' = "config"
  /\ counterFile' = CounterFileAfterRun(counterFile)
  /\ UNCHANGED << peer, cfgIdx, timeout, savewaves, runNumberParam, flushes, runid,
                  bus, files, clockv, reported, fault >>

(* -------------------------- configuration ------------------------------ *)

\* lines 148-228: the next statement of ConfigScript
Configure ==
  /\ pc = "config"
  /\ LET s == ConfigScript[cfgIdx]
     IN  IF s.op = "write" THEN Write(s.cmd, s.line, 0)
                           ELSE Query(s.cmd, s.line, AnswerTo(s.cmd))
  /\ cfgIdx' = cfgIdx + 1
  /\ pc' = IF cfgIdx = Len(ConfigScript) THEN "busy" ELSE "config"
  /\ UNCHANGED << peer, config, runid, files, clockv, reported, fault >>

(* ------------------------------ status --------------------------------- *)

\* Publish that leaves the file alone for "writing"
Publish_skipWriting(status) ==
  /\ statusFile' = IF status = "writing" THEN statusFile ELSE status
  /\ statusLog' = IF status = "writing" THEN statusLog
                                        ELSE Append(statusLog, status)

\* open(run_log_path, "w"); write(status); close()
Publish(status) ==
  /\ statusFile' = status
  /\ statusLog' = Append(statusLog, status)

\* a run lock: the file is not written while the other instance is between
\* its 'busy' and its 'ready'
MayPublish_exclusive(otherRunning) == ~otherRunning

\* lines 248, 285, 329: open(run_log_path, "w") takes no lock and looks at
\* nothing: the write goes ahead whatever another instance is doing
MayPublish(otherRunning) == TRUE

\* the second instance has published 'busy' and not yet 'ready'
PeerRunning == peer \in {"poll", "writing", "export", "ready"}

\* this instance has published 'busy' and not yet 'ready'
SelfRunning == pc \in {"cdisplay", "arm", "poll", "sleep", "stop", "writing",
                       "report", "prepare", "prepareOpc", "save", "saveOpc",
                       "ready"}

\* lines 245-251
PublishBusy ==
  /\ pc = "busy"
  /\ MayPublish(PeerRunning)
  /\ Publish("busy")
  /\ pc' = "cdisplay"
  /\ UNCHANGED << peer, cfgIdx, config, runid, bus, clockv, reported, fault >>

(* ------------------------------- arm ----------------------------------- *)

\* line 261: print(dpo.write(':CDISplay'))
ClearDisplay ==
  /\ pc = "cdisplay"
  /\ Write(":CDISplay", 261, 0)
  /\ pc' = "arm"
  /\ UNCHANGED << peer, cfgIdx, config, runid, files, clockv, reported, fault >>

\* lines 263-265: dpo.write('*CLS;:SINGle'); start = time.time(); end_early = False
Arm ==
  /\ pc = "arm"
  /\ Write("*CLS;:SINGle", 263, 0)
  /\ now' = 0
  /\ end_early' = FALSE
  /\ pc' = "poll"
  /\ UNCHANGED << peer, cfgIdx, config, runid, files, lastQuery, lastSleep,
                  overslept, lastAder, polls, finish, reported, fault >>

(* ---------------------------- polling ----------------------------------- *)

\* the deadline check without its timeout > 0 guard
DeadlineExceeded_noGuard(t, elapsed) == elapsed > t

\* the deadline check allowing one tick more
DeadlineExceeded_late(t, elapsed) == t > 0 /\ elapsed > t + 1

\* the deadline check with the subtraction reversed (start - time.time())
DeadlineExceeded_reversed(t, elapsed) == t > 0 /\ (0 - elapsed) > t

\* line 276: timeout > 0 and time.time() - start > timeout
DeadlineExceeded(t, elapsed) == t > 0 /\ elapsed > t

\* PollOutcome that takes a text that is no integer for "not complete"
PollOutcome_tolerant(text) ==
  IF IsIntText(text) /\ IntOf(text) = 1 THEN "writing" ELSE "sleep"

\* PollOutcome that looks at the deadline, with the clock as the query left
\* it, before it looks at the answer
PollOutcome_deadlineFirst(text) ==
  IF ~IsIntText(text) THEN "aborted"
  ELSE IF DeadlineExceeded(timeout, now') THEN "stop"
  ELSE IF IntOf(text) = 1 THEN "writing"
  ELSE "sleep"

\* lines 269-274: where the loop goes with the text the :ADER? query
\* returned.  int() raises ValueError on a text that is no integer; 1 breaks
\* out of the loop (line 271); anything else sleeps (line 274).
PollOutcome(text) ==
  IF ~IsIntText(text) THEN "aborted"
  ELSE IF IntOf(text) = 1 THEN "writing"
  ELSE "sleep"

\* line 269, and line 281 when the loop breaks at line 271.  The query takes
\* `lat` ticks to return; `ans` is the instrument's answer to it.
Poll ==
  /\ pc = "poll"
  /\ \E lat \in 0 .. MaxQueryLatency, ans \in AderResponses :
       LET q == Receive(outq, 269, ans)
           v == Head(q).val
           t == Sat(now + lat)
           to == PollOutcome(v)
       IN  /\ outq' = Tail(q)
           /\ IF polls < MaxPolls
                THEN /\ sent' = Append(sent, Msg(":ADER?", 269, 0))
                     /\ reads' = Append(reads, [line |-> 269,
                                                 from |-> Head(q).from,
                                                 val |-> v])
                ELSE UNCHANGED << sent, reads >>
           /\ polls' = IF polls < MaxPolls THEN polls + 1 ELSE polls
           /\ now' = t
           /\ lastQuery' = lat
           /\ lastAder' = v
           /\ pc' = to
           /\ finish' = IF to = "writing" THEN t ELSE finish
           /\ err' = IF to = "aborted" THEN "ValueError" ELSE err
           /\ failedAt' = IF to = "aborted" THEN pc ELSE failedAt
  /\ UNCHANGED << peer, cfgIdx, config, runid, files, lastSleep, overslept,
                  end_early, reported >>

\* lines 274-277: time.sleep(0.1), then the deadline check
Sleep ==
  /\ pc = "sleep"
  /\ \E d \in SleepTicks .. (SleepTicks + MaxOversleep) :
       /\ now' = Sat(now + d)
       /\ lastSleep' = d
       /\ overslept' = (overslept \/ d > SleepTicks)
       /\ IF DeadlineExceeded(timeout, Sat(now + d))
            THEN /\ end_early' = TRUE
                 /\ pc' = "stop"
            ELSE /\ end_early' = end_early
                 /\ pc' = "poll"
  /\ UNCHANGED << peer, cfgIdx, config, runid, bus, files, lastQuery, lastAder,
                  polls, finish, reported, fault >>

\* lines 278-281: dpo.write(':STOP;*OPC?'); break; end = time.time()
Stop ==
  /\ pc = "stop"
  /\ Write(":STOP;*OPC?", 278, 0)
  /\ finish' = now
  /\ pc' = "writing"
  /\ UNCHANGED << peer, cfgIdx, config, runid, files, now, lastQuery, lastSleep,
                  overslept, lastAder, polls, end_early, reported, fault >>

(* ----------------------- writing, report, export ----------------------- *)

\* lines 285-289
PublishWriting ==
  /\ pc = "writing"
  /\ MayPublish(PeerRunning)
  /\ Publish("writing")
  /\ pc' = "report"
  /\ UNCHANGED << peer, cfgIdx, config, runid, bus, clockv, reported, fault >>

\* the export gated on a completed acquisition as well
AfterReport_completedOnly(save) ==
  IF save # 0 /\ ~end_early THEN "prepare" ELSE "ready"

\* the export skipped whatever the save flag
AfterReport_skipped(save) == "ready"

\* line 296: if savewaves
AfterReport(save) == IF save # 0 THEN "prepare" ELSE "ready"

\* the report that prints the rate whatever the outcome
ReportLine_always(early) == "rate"

\* lines 294-295: the rate is printed unless end_early
ReportLine(early) == IF early THEN "unknown" ELSE "rate"

\* lines 291-296: duration = end - start; trigRate = float(numEvents)/duration
Report ==
  /\ pc = "report"
  /\ IF finish = 0
       THEN /\ Raise("ZeroDivisionError")
            /\ UNCHANGED reported
       ELSE /\ reported' = ReportLine(end_early)
            /\ pc' = AfterReport(savewaves)
            /\ UNCHANGED fault
  /\ UNCHANGED << peer, cfgIdx, config, runid, bus, files, clockv >>

\* line 299: dpo.write(':DISK:SEGMented ALL')
Prepare ==
  /\ pc = "prepare"
  /\ Write(":DISK:SEGMented ALL", 299, 0)
  /\ pc' = "prepareOpc"
  /\ UNCHANGED << peer, cfgIdx, config, runid, files, clockv, reported, fault >>

\* line 300: print(dpo.query('*OPC?'))
PrepareOpc ==
  /\ pc = "prepareOpc"
  /\ Query("*OPC?", 300, AnswerTo("*OPC?"))
  /\ pc' = "save"
  /\ UNCHANGED << peer, cfgIdx, config, runid, files, clockv, reported, fault >>

\* the run number read again from the counter file when the path is built
SaveRunNumber_reread ==
  IF IsIntText(counterFile) THEN IntOf(counterFile) ELSE runNumber

\* line 304: the run number put in the destination path, %(runNumber)
SaveRunNumber == runNumber

\* line 304: dpo.write(':DISK:SAVE:WAVeform CHANnel1 ,"...run%s",BIN,ON'%(runNumber))
Save ==
  /\ pc = "save"
  /\ Write(":DISK:SAVE:WAVeform CHANnel1", 304, SaveRunNumber)
  /\ pc' = "saveOpc"
  /\ UNCHANGED << peer, cfgIdx, config, runid, files, clockv, reported, fault >>

\* line 307: print(dpo.query('*OPC?'))
SaveOpc ==
  /\ pc = "saveOpc"
  /\ Query("*OPC?", 307, AnswerTo("*OPC?"))
  /\ pc' = "ready"
  /\ UNCHANGED << peer, cfgIdx, config, runid, files, clockv, reported, fault >>

\* lines 329-333
PublishReady ==
  /\ pc = "ready"
  /\ MayPublish(PeerRunning)
  /\ Publish("ready")
  /\ pc' = "close"
  /\ UNCHANGED << peer, cfgIdx, config, runid, bus, clockv, reported, fault >>

\* line 336: dpo.close()
Close ==
  /\ pc = "close"
  /\ pc' = "done"
  /\ UNCHANGED << peer, cfgIdx, config, runid, bus, files, clockv, reported, fault >>

(* ------------------------------ failures ------------------------------- *)

\* the positions at which the script writes to or queries the instrument
SessionPcs == {"connect", "config", "cdisplay", "arm", "poll", "stop",
               "prepare", "prepareOpc", "save", "saveOpc"}

\* the positions at which the script opens a file for writing
FilePcs == {"openlog", "busy", "writing", "ready"}

\* the failing statement is tried again
OnTransportError_retry(at) == at

\* where the script goes when dpo.write or dpo.query raises: nothing catches it
OnTransportError(at) == "aborted"

\* dpo.write / dpo.query raises (the session timed out or the link failed)
TransportError ==
  /\ pc \in SessionPcs
  /\ pc' = OnTransportError(pc)
  /\ err' = "VisaIOError"
  /\ failedAt' = pc
  /\ UNCHANGED << peer, cfgIdx, config, runid, bus, files, clockv, reported >>

\* open(path, "w") or open(path, "a+") raises
FileError ==
  /\ pc \in FilePcs
  /\ Raise("OSError")
  /\ UNCHANGED << peer, cfgIdx, config, runid, bus, files, clockv, reported >>

(* --------------------------- specification ----------------------------- *)

Program ==
  \/ Connect
  \/ ResolveRunNumber
  \/ OpenLog
  \/ Configure
  \/ PublishBusy
  \/ ClearDisplay
  \/ Arm
  \/ Poll
  \/ Sleep
  \/ Stop
  \/ PublishWriting
  \/ Report
  \/ Prepare
  \/ PrepareOpc
  \/ Save
  \/ SaveOpc
  \/ PublishReady
  \/ Close

Next ==
  \/ Program
  \/ TransportError
  \/ FileError

Spec == Init /\ [][Next]_vars

(* ------------------------- a second instance -------------------------- *)

\* The second instance runs the same script; of its run only the steps
\* around its writes of the shared status file are told apart.

\* lines 25-242 of the second instance: connect, run number, configuration
PeerConfigure ==
  /\ peer = "start"
  /\ peer' = "busy"
  /\ UNCHANGED << own, files >>

\* lines 245-263 of the second instance: 'busy' is written, then it arms
PeerPublishBusy ==
  /\ peer = "busy"
  /\ MayPublish(SelfRunning)
  /\ Publish("busy")
  /\ peer' = "poll"
  /\ UNCHANGED own

\* lines 266-281 of the second instance: its polling loop is left
PeerLeaveLoop ==
  /\ peer = "poll"
  /\ peer' = "writing"
  /\ UNCHANGED << own, files >>

\* lines 285-289 of the second instance
PeerPublishWriting ==
  /\ peer = "writing"
  /\ MayPublish(SelfRunning)
  /\ Publish("writing")
  /\ peer' = "export"
  /\ UNCHANGED own

\* lines 291-309 of the second instance: report and export
PeerExport ==
  /\ peer = "export"
  /\ peer' = "ready"
  /\ UNCHANGED << own, files >>

\* lines 329-336 of the second instance
PeerPublishReady ==
  /\ peer = "ready"
  /\ MayPublish(SelfRunning)
  /\ Publish("ready")
  /\ peer' = "done"
  /\ UNCHANGED own

NextDuo ==
  \/ Program
  \/ TransportError
  \/ FileError
  \/ PeerConfigure
  \/ PeerPublishBusy
  \/ PeerLeaveLoop
  \/ PeerPublishWriting
  \/ PeerExport
  \/ PeerPublishReady

\* two instances, interleaved step by step
DuoSpec == InitDuo /\ [][NextDuo]_vars

\* The script is the only thread of its process: whenever its next statement
\* can run, it eventually does.
FairSpec == Spec /\ WF_vars(Program)

(* --------------------------- derived state ----------------------------- *)

\* positions after the polling loop
PostLoopPcs == {"writing", "report", "prepare", "prepareOpc", "save",
                "saveOpc", "ready", "close", "done"}

\* the polling loop has been left through one of its two breaks
LoopLeft == pc \in PostLoopPcs \/ (pc = "aborted" /\ failedAt \in PostLoopPcs)

Completed == LoopLeft /\ ~end_early
TimedOut  == LoopLeft /\ end_early

\* positions in `sent` of the messages carrying cmd
Where(cmd) == { i \in 1 .. Len(sent) : sent[i].cmd = cmd }

\* positions in `sent` of the messages sent by the statement at `line`
WhereLine(line) == { i \in 1 .. Len(sent) : sent[i].line = line }

\* s is an initial part of t
IsPrefix(s, t) ==
  /\ Len(s) <= Len(t)
  /\ \A i \in 1 .. Len(s) : s[i] = t[i]

\* some answer to the message sent at `line` has been read by the controller
AnswerRead(line) == \E k \in 1 .. Len(reads) : reads[k].from = line

(* ------------------------------ C1 ------------------------------------- *)

StatusOrder == << "busy", "writing", "ready" >>

\* C1: the values written to the status file are, at every moment, an
\* initial part of [busy, writing, ready], the file holds the last of them,
\* and a run that ends without a fatal error has written exactly
\* [busy, writing, ready], whatever the timeout, the outcome and the save flag.
C1_StatusSequence ==
  /\ IsPrefix(statusLog, StatusOrder)
  /\ statusFile = IF statusLog = << >> THEN "" ELSE statusLog[Len(statusLog)]
  /\ pc = "done" => statusLog = StatusOrder

\* a timed-out run without export that ended normally
C1_Witness ==
  /\ pc = "done"
  /\ TimedOut
  /\ savewaves = 0
  /\ statusLog = StatusOrder

(* ------------------------------ C2 ------------------------------------- *)

\* C2: with a timeout <= 0 the loop never takes the timeout branch: end_early
\* stays false, the stop command of line 278 is never sent, and the loop is
\* only left after an :ADER? query returned a text equal to 1.
C2_UnboundedNeverTimesOut ==
  timeout <= 0 =>
    /\ ~end_early
    /\ ~TimedOut
    /\ pc # "stop"
    /\ WhereLine(278) = {}
    /\ LoopLeft => (IsIntText(lastAder) /\ IntOf(lastAder) = 1)
    /\ (pc \in {"poll", "sleep"} /\ polls > 0) =>
         (IsIntText(lastAder) /\ IntOf(lastAder) # 1)

\* an unbounded run that polled past every positive timeout and completed
C2_Witness ==
  /\ timeout <= 0
  /\ pc = "done"
  /\ polls >= 2
  /\ now > MaxTimeout + SleepTicks

(* ------------------------------ C3 ------------------------------------- *)

\* C3 as claimed: when the deadline check fires, the time elapsed since the
\* start stamp, query times included, is at most T + 100 ms (every sleep
\* having taken exactly 100 ms).
C3_WithinTimeoutPlusSleep ==
  (end_early /\ ~overslept) => now <= timeout + SleepTicks

\* C3 amended: when the deadline check fires, the elapsed time exceeds T by
\* at most the last iteration of the loop: the time its :ADER? query took to
\* return plus the time its sleep took.
C3_WithinTimeoutPlusLastIteration ==
  end_early =>
    /\ timeout > 0
    /\ now > timeout
    /\ now <= timeout + lastQuery + lastSleep

\* the bound is met with a query that took time
C3_Witness ==
  /\ pc = "stop"
  /\ lastQuery > 0
  /\ now = timeout + lastQuery + lastSleep

(* ------------------------------ C4 ------------------------------------- *)

\* C4 as claimed: a run that polls eventually leaves the loop as Completed
\* or TimedOut (or is ended by an exception), whatever the timeout.
C4_PollingTerminates ==
  (pc = "poll") ~> (LoopLeft \/ err # "")

\* C4 amended: with a positive timeout, a run that polls eventually leaves
\* the loop as Completed or TimedOut, unless an exception ends it.
C4_PollingTerminatesWithDeadline ==
  (pc = "poll" /\ timeout > 0) ~> (LoopLeft \/ err # "")

\* a run with a positive timeout that left the loop after several polls
C4_Witness ==
  /\ timeout > 0
  /\ pc = "writing"
  /\ polls >= 2
  /\ end_early

(* ------------------------------ C5 ------------------------------------- *)

\* The configuration phase (section 4.2 of the design) a command belongs to;
\* 0 for commands that are not configuration commands.
PhaseOf(cmd) ==
  CASE cmd = ":STOP;*OPC?" -> 1
    [] cmd \in {":TIMebase:RANGe", ":TIMebase:REFerence:PERCent",
                ":ACQuire:SRATe:ANALog:AUTO", ":ACQuire:SRATe:ANALog?"} -> 2
    [] cmd = ":TIMebase:POSition" -> 3
    [] cmd \in {":ACQuire:MODE SEGMented", ":ACQuire:SEGMented:COUNt",
                ":ACQuire:POINts:ANALog AUTO", ":ACQuire:INTerpolate 0"} -> 4
    [] cmd = ":ACQuire:BANDwidth" -> 5
    [] cmd \in {"CHANnel1:SCALe", "CHANnel1:OFFSet"} -> 6
    [] cmd \in {"TRIGger:MODE;SOURce;LEVel", ":TRIGger:EDGE:SLOPe"} -> 7
    [] OTHER -> 0

\* the place of a configuration command in the order the design lists them;
\* 0 for the sample-rate query, which the design does not place
OrderOf(cmd) ==
  CASE cmd = ":STOP;*OPC?" -> 1
    [] cmd = ":TIMebase:RANGe" -> 2
    [] cmd = ":TIMebase:REFerence:PERCent" -> 3
    [] cmd = ":ACQuire:SRATe:ANALog:AUTO" -> 4
    [] cmd = ":TIMebase:POSition" -> 5
    [] cmd = ":ACQuire:MODE SEGMented" -> 6
    [] cmd = ":ACQuire:SEGMented:COUNt" -> 7
    [] cmd = ":ACQuire:POINts:ANALog AUTO" -> 8
    [] cmd = ":ACQuire:INTerpolate 0" -> 9
    [] cmd = ":ACQuire:BANDwidth" -> 10
    [] cmd = "CHANnel1:SCALe" -> 11
    [] cmd = "CHANnel1:OFFSet" -> 12
    [] cmd = "TRIGger:MODE;SOURce;LEVel" -> 13
    [] cmd = ":TRIGger:EDGE:SLOPe" -> 14
    [] OTHER -> 0

\* a message sent by a configuration statement (lines 148-228)
IsConfigMsg(m) == m.line >= 148 /\ m.line <= 228

\* a configuration message the design places in its order
IsPlacedMsg(m) == IsConfigMsg(m) /\ OrderOf(m.cmd) # 0

\* C5: the configuration commands go out in the order of the seven phases,
\* and within a phase in the order listed; each is sent once; and the arm
\* command is sent only after all fourteen of them.
C5_ConfigurationOrder ==
  LET cfgAll == SelectSeq(sent, IsConfigMsg)
      placed == SelectSeq(sent, IsPlacedMsg)
  IN  /\ \A i \in 1 .. Len(cfgAll) : PhaseOf(cfgAll[i].cmd) \in 1 .. 7
      /\ \A i \in 1 .. Len(cfgAll) - 1 :
           PhaseOf(cfgAll[i].cmd) <= PhaseOf(cfgAll[i + 1].cmd)
      /\ \A i \in 1 .. Len(placed) - 1 :
           OrderOf(placed[i].cmd) < OrderOf(placed[i + 1].cmd)
      /\ \A a \in WhereLine(263) :
           /\ Len(placed) = 14
           /\ Len(SelectSeq(SubSeq(sent, 1, a - 1), IsPlacedMsg)) = 14

\* the instrument has been armed
C5_Witness ==
  /\ WhereLine(263) # {}
  /\ Len(SelectSeq(sent, IsConfigMsg)) = 15

(* ------------------------------ C6 ------------------------------------- *)

\* C6: no configuration command after the halt (lines 150-228) is sent before
\* the answer to the halt's *OPC? has been read by the controller.
C6_HaltAcknowledgedFirst ==
  (\E i \in 1 .. Len(sent) : sent[i].line >= 150 /\ sent[i].line <= 228)
    => \E k \in 1 .. Len(reads) : reads[k].from = 148 /\ reads[k].line = 148

(* ------------------------------ C7 ------------------------------------- *)

\* C7: once the timeout branch has been taken, 'writing' is not published
\* and no export command is sent before the answer to the *OPC? of the stop
\* command (line 278) has been read by the controller.
C7_StopAcknowledgedFirst ==
  (end_early /\ ("writing" \in { statusLog[i] : i \in 1 .. Len(statusLog) }
                 \/ WhereLine(299) # {} \/ WhereLine(304) # {}))
    => AnswerRead(278)

(* ------------------------------ C8 ------------------------------------- *)

C9_GarbledResponseAborts ==
  /\ [] ( (polls > 0 /\ ~IsIntText(lastAder)) =>
            /\ pc = "aborted"
            /\ err = "ValueError"
            /\ failedAt = "poll"
            /\ statusLog = << "busy" >>
            /\ statusFile = "busy"
            /\ sent[Len(sent)].cmd = ":ADER?"
            /\ WhereLine(278) = {}
            /\ WhereLine(299) = {}
            /\ WhereLine(304) = {} )
  /\ [][ (pc = "aborted" /\ err = "ValueError")
           => UNCHANGED << pc, sent, outq, reads, statusFile, statusLog >> ]_vars

\* a garbled answer after an answer that was an integer
C9_Witness ==
  /\ pc = "aborted"
  /\ lastAder = "garbled"
  /\ polls >= 2
  /\ statusFile = "busy"

(* ------------------------------ C10 ------------------------------------ *)

\* C10: a transport failure ends the run where it happens: nothing is sent
\* or published afterwards.  After a failure in the configuration the arm
\* command has not been sent and nothing has been published; after a failure
\* of the *OPC? query that follows the save command 'ready' has not been
\* published.
C10_TransportFailureIsTerminal ==
  /\ [] ( err = "VisaIOError" =>
            /\ pc = "aborted"
            /\ failedAt = "config" => (WhereLine(263) = {} /\ statusLog = << >>)
            /\ failedAt = "saveOpc" =>
                 (statusLog = << "busy", "writing" >> /\ statusFile = "writing") )
  /\ [][ err = "VisaIOError"
           => UNCHANGED << pc, sent, outq, reads, statusFile, statusLog >> ]_vars

\* the *OPC? query after the save command failed
C10_Witness ==
  /\ err = "VisaIOError"
  /\ failedAt = "saveOpc"
  /\ WhereLine(304) # {}

(* ------------------------------ C11 ------------------------------------ *)

\* C11: a completion seen with end equal to start does not make the
\* trigger-rate computation fail: no completed run of zero duration is ended
\* by a ZeroDivisionError.
C11_ZeroDurationGuarded ==
  (Completed /\ finish = 0) => err # "ZeroDivisionError"

(* ------------------------------ C13 ------------------------------------ *)

\* C13: the run number, once resolved, is a non-negative integer: an override
\* >= 0 verbatim, the integer of the counter file for the sentinel -1, and
\* never a negative value.
C13_RunNumberNonNegative ==
  resolved =>
    /\ runNumber >= 0
    /\ runNumberParam >= 0 => runNumber = runNumberParam
    /\ runNumberParam = NoOverride => runNumber = IntOf(counterFile)

(* ------------------------------ C15 ------------------------------------ *)

\* C15: when the run number cannot be resolved the run is aborted with no
\* command or query of any kind sent on the instrument session.
C15_NoContactBeforeCounterFailure ==
  (pc = "aborted" /\ failedAt = "resolve") => sent = << >>

(* ------------------------------ C18 ------------------------------------ *)

\* the message at position i of `sent` makes the instrument answer
IsQueryMsg(m) == m.cmd = ":ADER?" \/ AnswerTo(m.cmd) # ""

\* C18: every answer the controller reads is the answer to the query that
\* read it, and the answer to a message that asks for one has been read
\* before the next message that asks for one is sent.
C18_RequestResponsePairing ==
  /\ \A k \in 1 .. Len(reads) : reads[k].from = reads[k].line
  /\ \A i \in 1 .. Len(sent) - 1 :
       (IsQueryMsg(sent[i]) /\ sent[i].line \in {148, 278}
          /\ \E j \in (i + 1) .. Len(sent) : IsQueryMsg(sent[j]))
         => AnswerRead(sent[i].line)

(* ------------------------------ C12 ------------------------------------ *)

\* positions after the report of lines 294-295
ReportedPcs == {"prepare", "prepareOpc", "save", "saveOpc", "ready", "close",
                "done"}

\* C12: whenever the result has been reported, it carries the trigger rate
\* if and only if the outcome is Completed; a TimedOut run reports the
\* duration with the rate unknown.
C12_RateOnlyWhenCompleted ==
  /\ reported = "rate" => Completed
  /\ reported = "unknown" => TimedOut
  /\ reported \in {"", "rate", "unknown"}
  /\ (pc \in ReportedPcs \/ (pc = "aborted" /\ failedAt \in ReportedPcs)) =>
       /\ Completed => reported = "rate"
       /\ TimedOut => reported = "unknown"

\* a timed-out run that ended normally
C12_Witness ==
  /\ pc = "done"
  /\ TimedOut
  /\ reported = "unknown"

(* ------------------------------ C14 ------------------------------------ *)

\* C14: the run number is assigned before the first configuration command
\* is sent, is the value lines 108-114 resolve, never changes once assigned,
\* and is the number in the destination path of the save command.
C14_RunNumberFixed ==
  /\ [] ( /\ (\E i \in 1 .. Len(sent) : sent[i].line >= 148) => resolved
          /\ resolved =>
               runNumber = IF runNumberParam = NoOverride
                             THEN IntOf(counterFile) ELSE runNumberParam
          /\ \A i \in WhereLine(304) : sent[i].arg = runNumber )
  /\ [][ resolved => (resolved' /\ runNumber' = runNumber) ]_vars

\* a run with an override that differs from the counter file has saved
C14_Witness ==
  /\ pc = "done"
  /\ WhereLine(304) # {}
  /\ runNumberParam = 7
  /\ counterFile = "42"

(* ------------------------------ C16 ------------------------------------ *)

C19_CompletionWins ==
  /\ [] ( /\ LoopLeft => (WhereLine(278) # {} <=> end_early)
          /\ ~LoopLeft => (WhereLine(278) = {} /\ finish = 0)
          /\ Completed => (polls > 0 /\ IsIntText(lastAder) /\ IntOf(lastAder) = 1)
          /\ (end_early \/ pc = "stop") =>
               (polls > 0 /\ IsIntText(lastAder) /\ IntOf(lastAder) # 1
                 /\ lastSleep >= SleepTicks)
          /\ \A i \in WhereLine(269) :
               \A j \in 1 .. Len(sent) : sent[j].line >= 278 => i < j )
  /\ [][ (pc = "poll" /\ polls' > 0 /\ IsIntText(lastAder') /\ IntOf(lastAder') = 1)
           => (pc' = "writing" /\ ~end_early') ]_vars
  /\ [][ LoopLeft => (LoopLeft' /\ pc' \notin {"poll", "sleep", "stop"}
                       /\ lastAder' = lastAder /\ end_early' = end_early) ]_vars

\* a completion read after the deadline had passed
C19_Witness ==
  /\ Completed
  /\ timeout > 0
  /\ finish > timeout
  /\ pc = "done"

(* ------------------------------ C20 ------------------------------------ *)

\* the values published so far
Published == { statusLog[i] : i \in 1 .. Len(statusLog) }

\* C20: 'busy' is published only with every configuration message sent, and
\* the arm command only with 'busy' published; 'writing' only with the loop
\* left, and an export command only with 'writing' published; 'ready' only
\* with the answer to the *OPC? after the save command read when save is
\* enabled; and nothing is sent once 'ready' is published.
C20_StatusFollowsProtocol ==
  /\ [] ( /\ "busy" \in Published =>
               Len(SelectSeq(sent, IsConfigMsg)) = Len(ConfigScript)
          /\ (WhereLine(261) # {} \/ WhereLine(263) # {}) => "busy" \in Published
          /\ "writing" \in Published => LoopLeft
          /\ (\E i \in 1 .. Len(sent) : sent[i].line >= 299) =>
               "writing" \in Published
          /\ "ready" \in Published =>
               /\ pc \in {"close", "done"}
               /\ savewaves # 0 =>
                    /\ WhereLine(304) # {}
                    /\ \E k \in 1 .. Len(reads) : reads[k].line = 307 )
  /\ [][ "ready" \in Published => sent' = sent ]_vars

\* 'ready' published after an export
C20_Witness ==
  /\ statusFile = "ready"
  /\ savewaves # 0
  /\ \E k \in 1 .. Len(reads) : reads[k].line = 307

(* ------------------------------ C17 ------------------------------------ *)

\* C17: with two instances on one status file nothing orders their writes:
\* whenever either instance stands at one of its three writes of the status
\* file, the write can go ahead, whatever the other instance is doing.
C17_NoLockOnStatusFile ==
  /\ pc = "busy" => ENABLED PublishBusy
  /\ pc = "writing" => ENABLED PublishWriting
  /\ pc = "ready" => ENABLED PublishReady
  /\ peer = "busy" => ENABLED PeerPublishBusy
  /\ peer = "writing" => ENABLED PeerPublishWriting
  /\ peer = "ready" => ENABLED PeerPublishReady

\* the file reads 'ready' while the second instance is armed and polling,
\* and the values written went backwards from 'writing' to 'busy'
C17_Witness ==
  /\ statusFile = "ready"
  /\ peer = "poll"
  /\ \E i \in 1 .. Len(statusLog) - 1 :
       statusLog[i] = "writing" /\ statusLog[i + 1] = "busy"

=============================================================================
